---------------------------- MODULE Spec2Model ----------------------------
(***************************************************************************)
(* Model of njern/unpack: HTTP middleware that replaces a compressed       *)
(* request body by a streaming decoder chain (src/unpack.go).              *)
(*                                                                         *)
(* One request is followed from the call of the middleware's handler       *)
(* function to its return.  Bodies are byte sequences; the compression     *)
(* formats are modelled by their real framing with uncompressed ("stored") *)
(* payloads, so that header checks, the deflate variant sniff, truncation  *)
(* and trailer checks operate on bytes.                                    *)
(***************************************************************************)
EXTENDS Integers, Sequences, FiniteSets, TLC

(***************************************************************************)
(* Bounds of the model.                                                    *)
(***************************************************************************)
\* longest Content-Encoding token list that is enumerated
MaxChain == 3
\* longest plaintext that is enumerated
MaxPlain == 2
\* largest Options.MaxDecompressedBytes that is enumerated
MaxBudget == 3
\* largest buffer the downstream handler passes to Read
MaxBuf == 2
\* reads the downstream handler still issues after its first non-nil error
MaxExtraReads == 1

(***************************************************************************)
(* Sequence helpers.                                                       *)
(***************************************************************************)
Min(a, b) == IF a <= b THEN a ELSE b

Take(s, n) == SubSeq(s, 1, Min(n, Len(s)))

Drop(s, n) == SubSeq(s, Min(n, Len(s)) + 1, Len(s))

RECURSIVE SumBytes(_)
SumBytes(s) == IF s = <<>> THEN 0 ELSE Head(s) + SumBytes(Tail(s))

\* little-endian 16 bit and 32 bit fields
LE16(n) == <<n % 256, (n \div 256) % 256>>

LE32(n) == <<n % 256, (n \div 256) % 256, (n \div 65536) % 256, (n \div 16777216) % 256>>

(***************************************************************************)
(* Encoding tokens, src/unpack.go:26-31.  A token is a sequence of         *)
(* characters, as header values are.                                       *)
(***************************************************************************)
encodingGzip == <<"g", "z", "i", "p">>

encodingDeflate == <<"d", "e", "f", "l", "a", "t", "e">>

encodingZstd == <<"z", "s", "t", "d">>

encodingIdentity == <<"i", "d", "e", "n", "t", "i", "t", "y">>

\* two encodings the middleware does not support (the tests use "br")
encodingBr == <<"b", "r">>

encodingCompress == <<"c", "o", "m", "p", "r", "e", "s", "s">>


(***************************************************************************)
(* parseContentEncodings, src/unpack.go:213-228.                           *)
(***************************************************************************)
UpperLetters == <<"A", "B", "C", "D", "E", "F", "G", "H", "I", "J", "K", "L", "M",
                  "N", "O", "P", "Q", "R", "S", "T", "U", "V", "W", "X", "Y", "Z">>

LowerLetters == <<"a", "b", "c", "d", "e", "f", "g", "h", "i", "j", "k", "l", "m",
                  "n", "o", "p", "q", "r", "s", "t", "u", "v", "w", "x", "y", "z">>

\* strings.ToLower on one character
LowerChar(c) ==
    IF \E i \in 1..Len(UpperLetters) : UpperLetters[i] = c
    THEN LowerLetters[CHOOSE i \in 1..Len(UpperLetters) : UpperLetters[i] = c]
    ELSE c

ToLower(s) == [i \in 1..Len(s) |-> LowerChar(s[i])]

IsSpace(c) == c \in {" ", "\t"}

RECURSIVE TrimLeft(_)
TrimLeft(s) == IF s # <<>> /\ IsSpace(Head(s)) THEN TrimLeft(Tail(s)) ELSE s

RECURSIVE TrimRight(_)
TrimRight(s) ==
    IF s # <<>> /\ IsSpace(s[Len(s)]) THEN TrimRight(SubSeq(s, 1, Len(s) - 1)) ELSE s

\* strings.TrimSpace
TrimSpace(s) == TrimRight(TrimLeft(s))

\* strings.SplitSeq(value, ","): the parts between the commas, empty ones included
RECURSIVE SplitSeq(_, _, _)
SplitSeq(s, cur, acc) ==
    IF s = <<>> THEN Append(acc, cur)
    ELSE IF Head(s) = "," THEN SplitSeq(Tail(s), <<>>, Append(acc, cur))
    ELSE SplitSeq(Tail(s), Append(cur, Head(s)), acc)

\* the inner loop of parseContentEncodings over the parts of one value
RECURSIVE parseParts(_, _)
parseParts(parts, encodings) ==
    IF parts = <<>> THEN encodings
    ELSE LET encoding == ToLower(TrimSpace(Head(parts)))
         IN  IF encoding = <<>>
             THEN parseParts(Tail(parts), encodings)
             ELSE parseParts(Tail(parts), Append(encodings, encoding))

parseValuesFirstOnly(headerValues, encodings) ==
    IF headerValues = <<>> THEN encodings
    ELSE parseParts(SplitSeq(Head(headerValues), <<>>, <<>>), encodings)

RECURSIVE parseValues(_, _)
parseValues(headerValues, encodings) ==
    IF headerValues = <<>> THEN encodings
    ELSE parseValues(Tail(headerValues),
                     parseParts(SplitSeq(Head(headerValues), <<>>, <<>>), encodings))

parseContentEncodings(headerValues) == parseValues(headerValues, <<>>)

(***************************************************************************)
(* Chain classification, src/unpack.go:230-273.                            *)
(***************************************************************************)
SupportedEncodings == {encodingGzip, encodingDeflate, encodingZstd, encodingIdentity}

DecodableEncodings == {encodingGzip, encodingDeflate, encodingZstd}

allSupportedEncodingsFirstOnly(encodings) ==
    encodings = <<>> \/ encodings[1] \in SupportedEncodings

allSupportedEncodings(encodings) ==
    \A i \in 1..Len(encodings) : encodings[i] \in SupportedEncodings

hasDecodableEncodingsAny(encodings) == encodings # <<>>

hasDecodableEncodings(encodings) ==
    \E i \in 1..Len(encodings) : encodings[i] \in DecodableEncodings

firstUnsupportedEncodingLast(encodings) ==
    IF \E i \in 1..Len(encodings) : encodings[i] \notin SupportedEncodings
    THEN encodings[CHOOSE i \in 1..Len(encodings) :
                      /\ encodings[i] \notin SupportedEncodings
                      /\ \A j \in (i+1)..Len(encodings) : encodings[j] \in SupportedEncodings]
    ELSE <<"u", "n", "k", "n", "o", "w", "n">>

firstUnsupportedEncoding(encodings) ==
    IF \E i \in 1..Len(encodings) : encodings[i] \notin SupportedEncodings
    THEN encodings[CHOOSE i \in 1..Len(encodings) :
                      /\ encodings[i] \notin SupportedEncodings
                      /\ \A j \in 1..(i-1) : encodings[j] \in SupportedEncodings]
    ELSE <<"u", "n", "k", "n", "o", "w", "n">>

\* fmt.Sprintf("Content-Encoding: %s set but unable to decompress body", encoding)
decompressionErrorMessage(encoding) ==
    <<"Content-Encoding: ", encoding, " set but unable to decompress body">>

\* fmt.Sprintf("Content-Encoding: %s is not supported", encoding)
unsupportedEncodingMessage(encoding) ==
    <<"Content-Encoding: ", encoding, " is not supported">>


(***************************************************************************)
(* Byte streams.  A stream is what an io.Reader will deliver over its      *)
(* life: the bytes `data`, then the terminal condition `term`:             *)
(*   "eof"    io.EOF                                                       *)
(*   "io"     an untyped error (a format error of a decoder, an            *)
(*            unexpected end of input)                                     *)
(*   "decode" a *DecompressionError carrying `encoding`                    *)
(*   "coded"  not modelled: the stream goes on with what a Huffman-coded   *)
(*            deflate block holds                                          *)
(***************************************************************************)
NoEncoding == <<>>

Stream(data, term, encoding) == [data |-> data, term |-> term, encoding |-> encoding]

EOFStream(data) == Stream(data, "eof", NoEncoding)

\* What a decoder reports when its input ends before the format is complete:
\* io.ErrUnexpectedEOF on a clean end, the input's own error otherwise.
InputEnded(in, out) ==
    IF in.term = "eof" THEN Stream(out, "io", NoEncoding)
    ELSE Stream(out, in.term, in.encoding)

(***************************************************************************)
(* The encoders of the test helpers (src/unpack_test.go:356-409) and of    *)
(* the README's zstd client.  Payloads are written as stored (type 0)      *)
(* deflate blocks and raw zstd blocks, which are valid streams of the      *)
(* formats.                                                                *)
(***************************************************************************)
\* One stored deflate block (RFC 1951, 3.2.4): BFINAL and BTYPE = 00 in the
\* low three bits of the first byte, `pad` in the five bits up to the byte
\* boundary (ignored by decoders), then LEN, NLEN and the bytes.
StoredBlock(final, pad, d) ==
    <<final + 8 * pad>> \o LE16(Len(d)) \o LE16(65535 - Len(d)) \o d

\* flate.NewWriter + Write + Close
rawDeflateData(payload) == StoredBlock(1, 0, payload)

\* A valid raw deflate stream of another encoder: the first byte of the
\* payload in a non-final stored block whose padding bits are 01111 (first
\* stream byte 0x78, second byte LEN = 0x01), the rest in a final block.
rawDeflatePadded(payload) ==
    IF payload = <<>> THEN rawDeflateData(payload)
    ELSE StoredBlock(0, 15, <<Head(payload)>>) \o StoredBlock(1, 0, Tail(payload))

\* Adler-32 of the payload, big-endian, the zlib trailer
Adler32(d) ==
    LET a == (1 + SumBytes(d)) % 65521
        b == (Len(d) + SumBytes([i \in 1..Len(d) |-> (Len(d) - i + 1) * d[i]])) % 65521
    IN  <<b \div 256, b % 256, a \div 256, a % 256>>

\* zlib.NewWriter + Write + Close: CMF = 0x78, FLG = 0x01, deflate, Adler-32
deflateData(payload) == <<120, 1>> \o rawDeflateData(payload) \o Adler32(payload)

\* the eight trailer bytes of a gzip member; the CRC-32 field is abstracted
\* to the byte sum of the payload
GzipTrailer(d) == LE32(SumBytes(d)) \o LE32(Len(d))

\* gzip.NewWriter + Write + Close: ten header bytes (magic 1f 8b, method 8,
\* no flags), deflate, trailer
gzipData(payload) ==
    <<31, 139, 8, 0, 0, 0, 0, 0, 0, 255>> \o rawDeflateData(payload) \o GzipTrailer(payload)

\* zstd EncodeAll: magic 28 b5 2f fd, frame header descriptor 0x20 (single
\* segment, no checksum), one byte of content size, one last raw block
zstdData(payload) ==
    <<40, 181, 47, 253, 32, Len(payload)>> \o <<1 + 8 * Len(payload), 0, 0>> \o payload

(***************************************************************************)
(* The decoders the middleware opens (src/unpack.go:86-104).  Each takes   *)
(* the stream it reads from and gives [ok, out]: ok is FALSE when the      *)
(* constructor returns an error, out is the stream the decoder delivers.   *)
(***************************************************************************)
OpenFailed == [ok |-> FALSE, out |-> EOFStream(<<>>)]

Opened(out) == [ok |-> TRUE, out |-> out]

\* Inflate the stored blocks at the head of d.  Gives the bytes produced,
\* the input left over, and how it ended: "end" (final block complete),
\* "short" (input ran out), "bad" (corrupt input: the reserved block type 3,
\* LEN and NLEN that do not match) or "coded" (a block of type 1 or 2,
\* Huffman coded, which the modelled encoders do not write and whose
\* content is not modelled).
RECURSIVE Inflate(_, _)
Inflate(d, acc) ==
    IF Len(d) < 1 THEN [out |-> acc, rest |-> <<>>, how |-> "short"]
    ELSE IF (d[1] \div 2) % 4 = 3 THEN [out |-> acc, rest |-> d, how |-> "bad"]
    ELSE IF (d[1] \div 2) % 4 # 0 THEN [out |-> acc, rest |-> d, how |-> "coded"]
    ELSE IF Len(d) < 5 THEN [out |-> acc, rest |-> <<>>, how |-> "short"]
    ELSE LET len  == d[2] + 256 * d[3]
             nlen == d[4] + 256 * d[5]
             body == Drop(d, 5)
         IN  IF nlen # 65535 - len THEN [out |-> acc, rest |-> d, how |-> "bad"]
             ELSE IF Len(body) < len
                  THEN [out |-> acc \o body, rest |-> <<>>, how |-> "short"]
             ELSE IF d[1] % 2 = 1
                  THEN [out |-> acc \o Take(body, len), rest |-> Drop(body, len), how |-> "end"]
             ELSE Inflate(Drop(body, len), acc \o Take(body, len))

\* the stream a decoder delivers once inflate and the trailer check are done
AfterInflate(in, r, trailerLen, trailer) ==
    IF r.how = "bad" THEN Stream(r.out, "io", NoEncoding)
    ELSE IF r.how = "coded" THEN Stream(r.out, "coded", NoEncoding)
    ELSE IF r.how = "short" THEN InputEnded(in, r.out)
    ELSE IF Len(r.rest) < trailerLen THEN InputEnded(in, r.out)
    ELSE IF Take(r.rest, trailerLen) # trailer THEN Stream(r.out, "io", NoEncoding)
    ELSE EOFStream(r.out)

\* flate.NewReader: never fails to open
flateNewReader(in) == Opened(AfterInflate(in, Inflate(in.data, <<>>), 0, <<>>))

\* zlib.NewReader: reads and checks the two header bytes when opened
zlibNewReader(in) ==
    IF Len(in.data) < 2 THEN OpenFailed
    ELSE LET cmf == in.data[1]
             flg == in.data[2]
         IN  IF \/ cmf % 16 # 8
                \/ cmf \div 16 > 7
                \/ (cmf * 256 + flg) % 31 # 0
                \/ (flg \div 32) % 2 = 1
             THEN OpenFailed
             ELSE LET r == Inflate(Drop(in.data, 2), <<>>)
                  IN  Opened(AfterInflate(in, r, 4, Adler32(r.out)))

\* what a multi-member decoder gives when it looks for a next member after a
\* complete one: the end of its input ends it, bytes that follow are no member
NextMember(in, out, rest) ==
    IF rest # <<>> THEN Stream(out, "io", NoEncoding)
    ELSE Stream(out, in.term, in.encoding)

\* gzip.NewReader: reads and checks the ten header bytes when opened; after
\* a member's trailer it looks for another member
gzipNewReader(in) ==
    IF Len(in.data) < 10 THEN OpenFailed
    ELSE IF in.data[1] # 31 \/ in.data[2] # 139 \/ in.data[3] # 8 THEN OpenFailed
    ELSE LET r == Inflate(Drop(in.data, 10), <<>>)
             s == AfterInflate(in, r, 8, GzipTrailer(r.out))
         IN  IF s.term = "eof" THEN Opened(NextMember(in, r.out, Drop(r.rest, 8)))
             ELSE Opened(s)

\* zstd.NewReader + IOReadCloser: opening reads nothing; every format error
\* surfaces from Read.  A block is delivered whole or not at all; after a
\* frame the decoder looks for another frame.
zstdNewReader(in) ==
    LET d == in.data
    IN  IF d = <<>> THEN Opened(Stream(<<>>, in.term, in.encoding))
        ELSE IF Len(d) < 4 THEN Opened(InputEnded(in, <<>>))
        ELSE IF Take(d, 4) # <<40, 181, 47, 253>> THEN Opened(Stream(<<>>, "io", NoEncoding))
        ELSE IF Len(d) < 9 THEN Opened(InputEnded(in, <<>>))
        ELSE IF d[5] # 32 \/ d[7] % 8 # 1 \/ d[8] # 0 \/ d[9] # 0
             THEN Opened(Stream(<<>>, "io", NoEncoding))
        ELSE LET size == d[7] \div 8
                 body == Drop(d, 9)
             IN  IF Len(body) < size THEN Opened(InputEnded(in, <<>>))
                 ELSE IF d[6] # size THEN Opened(Stream(<<>>, "io", NoEncoding))
                 ELSE Opened(NextMember(in, Take(body, size), Drop(body, size)))

(***************************************************************************)
(* The Layered Decode Builder, src/unpack.go:75-119.                       *)
(***************************************************************************)
looksLikeZlibHeaderAnyWindow(in) ==
    IF Len(in.data) < 2 THEN TRUE
    ELSE in.data[1] % 16 = 8 /\ (in.data[1] * 256 + in.data[2]) % 31 = 0

\* looksLikeZlibHeader, src/unpack.go:275-304, on the two bytes bufio's Peek
\* gives (Peek fails when the stream has fewer than two bytes)
looksLikeZlibHeader(in) ==
    IF Len(in.data) < 2 THEN TRUE
    ELSE LET cmf == in.data[1]
             flg == in.data[2]
         IN  IF cmf % 16 # 8 THEN FALSE
             ELSE IF cmf \div 16 > 7 THEN FALSE
             ELSE (cmf * 256 + flg) % 31 = 0

\* the switch of src/unpack.go:86-104: open the decoder of one stage.  Peek
\* leaves the peeked bytes in the bufio.Reader the decoder then reads.
openStage(encoding, rc) ==
    IF encoding = encodingGzip THEN gzipNewReader(rc)
    ELSE IF encoding = encodingDeflate
         THEN IF looksLikeZlibHeader(rc) THEN zlibNewReader(rc) ELSE flateNewReader(rc)
    ELSE zstdNewReader(rc)

\* errorWrappingReadCloser.Read: an error other than io.EOF that is not yet a
\* *DecompressionError becomes one, carrying the stage's encoding
errorWrappingReadCloser(rc, encoding) ==
    IF rc.term = "io" THEN Stream(rc.data, "decode", encoding) ELSE rc

wrapStageForgotten(rc, encoding) == rc

\* src/unpack.go:114-117: every opened stage is wrapped with its own token
wrapStage(rc, encoding) == errorWrappingReadCloser(rc, encoding)

nextIndexForward(encodings, i) == Len(encodings) + 1 - i

\* the loop header of src/unpack.go:78: position i of the walk, which runs
\* from the last token to the first
nextIndex(encodings, i) == i

\* The loop of src/unpack.go:78-119 from index i down to 1.  `rc` is the
\* stream composed so far, `stages` the encodings of the stages opened so
\* far (closers is r.Body followed by one closer per stage).  The result
\* names the encoding whose decoder failed to open, if one did.
RECURSIVE buildPipeline(_, _, _, _)
buildPipeline(encodings, i, rc, stages) ==
    IF i < 1 THEN [failed |-> FALSE, encoding |-> NoEncoding, rc |-> rc, stages |-> stages]
    ELSE LET encoding == encodings[nextIndex(encodings, i)]
         IN  IF encoding = encodingIdentity
             THEN buildPipeline(encodings, i - 1, rc, stages)
             ELSE LET o == openStage(encoding, rc)
                  IN  IF ~o.ok
                      THEN [failed |-> TRUE, encoding |-> encoding, rc |-> rc,
                            stages |-> stages]
                      ELSE buildPipeline(encodings, i - 1, wrapStage(o.out, encoding),
                                         Append(stages, encoding))

(***************************************************************************)
(* Reads.  An error value is [kind, encoding, limit]; kind "nil" is no     *)
(* error, "limit" is *http.MaxBytesError.                                  *)
(***************************************************************************)
Err(kind, encoding, limit) == [kind |-> kind, encoding |-> encoding, limit |-> limit]

Nil == Err("nil", NoEncoding, 0)

MaxBytesError(limit) == Err("limit", NoEncoding, limit)

TermErr(s) == Err(s.term, s.encoding, 0)

\* What one Read(p) with len(p) = plen may return on stream s at offset pos,
\* by the io.Reader contract: between 1 and plen of the bytes left with no
\* error, or all the bytes left together with the terminal error, or, when
\* none is left, zero bytes and the terminal error.
ReadResults(s, pos, plen) ==
    LET rem == Len(s.data) - pos
    IN  IF plen = 0 THEN {[n |-> 0, err |-> Nil]}
        ELSE IF rem = 0 THEN {[n |-> 0, err |-> TermErr(s)]}
        ELSE {[n |-> k, err |-> Nil] : k \in 1..Min(plen, rem)}
             \cup (IF rem <= plen THEN {[n |-> rem, err |-> TermErr(s)]} ELSE {})

\* what a Read of r.Body records of the Read of the stream below it: not
\* called, or called with result r
NoInnerRead == [called |-> FALSE, n |-> 0, err |-> Nil]

InnerRead(r) == [called |-> TRUE, n |-> r.n, err |-> r.err]

clampLenMissing(max, read, plen) == plen

\* src/unpack.go:183-185: the read size is clamped to the budget that is left
clampLen(max, read, plen) == IF plen > max - read THEN max - read ELSE plen

limitResultAlways(max, read, r) ==
    IF read >= max THEN [n |-> r.n, err |-> MaxBytesError(max)] ELSE r

\* src/unpack.go:190-194: `read` is the counter after the inner read
limitResult(max, read, r) ==
    IF read >= max /\ r.err = Nil THEN [n |-> r.n, err |-> MaxBytesError(max)] ELSE r

maxBytesReadNoEarlyExit(max, read, s, pos, plen) ==
    IF max <= 0
    THEN {[n |-> r.n, err |-> r.err, read |-> read, inner |-> InnerRead(r)] :
             r \in ReadResults(s, pos, plen)}
    ELSE {[n |-> limitResult(max, read + r.n, r).n,
           err |-> limitResult(max, read + r.n, r).err,
           read |-> read + r.n,
           inner |-> InnerRead(r)] : r \in ReadResults(s, pos, clampLen(max, read, plen))}

\* maxBytesReadCloser.Read, src/unpack.go:174-195, over the results the inner
\* reader may give: the set of [n, err, read, inner] (read is m.read
\* afterwards, inner the call of m.rc.Read)
maxBytesRead(max, read, s, pos, plen) ==
    IF max <= 0
    THEN {[n |-> r.n, err |-> r.err, read |-> read, inner |-> InnerRead(r)] :
             r \in ReadResults(s, pos, plen)}
    ELSE IF read >= max
    THEN {[n |-> 0, err |-> MaxBytesError(max), read |-> read, inner |-> NoInnerRead]}
    ELSE {[n |-> limitResult(max, read + r.n, r).n,
           err |-> limitResult(max, read + r.n, r).err,
           read |-> read + r.n,
           inner |-> InnerRead(r)] : r \in ReadResults(s, pos, clampLen(max, read, plen))}

(***************************************************************************)
(* The requests that are enumerated.                                       *)
(***************************************************************************)
Tokens == {encodingGzip, encodingDeflate, encodingZstd, encodingIdentity, encodingBr,
           encodingCompress}

\* the token list a client declared has a token the middleware does not
\* support
HasUnsupported(chain) == \E i \in 1..Len(chain) : chain[i] \notin SupportedEncodings

\* the token list a client declared is one the middleware decodes
Decodable(chain) ==
    /\ chain # <<>>
    /\ ~HasUnsupported(chain)
    /\ \E i \in 1..Len(chain) : chain[i] # encodingIdentity

\* the token lists a client declares, the empty one included
Chains == UNION {[1..n -> Tokens] : n \in 0..MaxChain}

\* the plaintexts: "h", "hi", "hih", ... by length
Plaintext(n) == [i \in 1..n |-> IF i % 2 = 1 THEN 104 ELSE 105]

\* How the client built the body from the plaintext:
\*   "encoded"    each token applied in listed order, deflate as zlib
\*   "raw"        the same, deflate as raw deflate (flate.NewWriter)
\*   "rawpad"     the same, deflate as raw deflate with padded stored blocks
\*   "truncated"  "encoded" with the last byte missing
\*   "plain"      the plaintext itself, whatever the header declares
Variants == {"encoded", "raw", "rawpad", "truncated", "plain"}

encodeOne(encoding, variant, payload) ==
    IF encoding = encodingGzip THEN gzipData(payload)
    ELSE IF encoding = encodingZstd THEN zstdData(payload)
    ELSE IF encoding = encodingDeflate
         THEN IF variant = "raw" THEN rawDeflateData(payload)
              ELSE IF variant = "rawpad" THEN rawDeflatePadded(payload)
              ELSE deflateData(payload)
    ELSE payload

\* the encodings applied in listed order: chain[1] first, chain[Len] last
RECURSIVE encodeChain(_, _, _)
encodeChain(chain, variant, payload) ==
    IF chain = <<>> THEN payload
    ELSE encodeChain(Tail(chain), variant, encodeOne(Head(chain), variant, payload))

BodyOf(chain, variant, payload) ==
    IF variant = "plain" THEN payload
    ELSE IF variant = "truncated"
         THEN LET e == encodeChain(chain, "encoded", payload)
              IN  SubSeq(e, 1, Len(e) - 1)
    ELSE encodeChain(chain, variant, payload)

\* the variants that give a chain a body of its own
VariantsOf(chain) ==
    IF ~Decodable(chain) THEN {"plain"}
    ELSE IF \E i \in 1..Len(chain) : chain[i] = encodingDeflate THEN Variants
    ELSE Variants \ {"raw", "rawpad"}

ToUpper(s) ==
    [i \in 1..Len(s) |->
        IF \E k \in 1..Len(LowerLetters) : LowerLetters[k] = s[i]
        THEN UpperLetters[CHOOSE k \in 1..Len(LowerLetters) : LowerLetters[k] = s[i]]
        ELSE s[i]]

RECURSIVE JoinComma(_)
JoinComma(chain) ==
    IF chain = <<>> THEN <<>>
    ELSE IF Len(chain) = 1 THEN chain[1]
    ELSE chain[1] \o <<",", " ">> \o JoinComma(Tail(chain))

\* The Content-Encoding header values a client may send for a chain: one
\* comma-separated value; for two tokens also one occurrence per token; for
\* one token also " GZIP ," (case, blanks, a stray comma); for none, no
\* header or a value of separators only.
HeaderForms(chain) ==
    IF chain = <<>> THEN {<<>>, << <<" ", ",">> >>}
    ELSE {<<JoinComma(chain)>>}
         \cup (IF Len(chain) = 2 THEN {<<chain[1], chain[2]>>} ELSE {})
         \cup (IF Len(chain) = 1
               THEN {<< <<" ">> \o ToUpper(chain[1]) \o <<" ", ",">> >>}
               ELSE {})

\* the ways to cut a chain into consecutive non-empty groups, one group per
\* header occurrence
RECURSIVE Splits(_)
Splits(chain) ==
    IF chain = <<>> THEN {<<>>}
    ELSE UNION {{<<Take(chain, k)>> \o rest : rest \in Splits(Drop(chain, k))} :
                k \in 1..Len(chain)}

\* the tokens of one group in upper case, separated by an empty part and a tab
RECURSIVE JoinMessy(_)
JoinMessy(group) ==
    IF group = <<>> THEN <<>>
    ELSE IF Len(group) = 1 THEN ToUpper(group[1])
    ELSE ToUpper(group[1]) \o <<",", ",", "\t">> \o JoinMessy(Tail(group))

\* The header occurrences a client may send for a chain: every cut of the
\* chain into occurrences, each written "a, b" or, after an empty occurrence,
\* " A,,\tB\t," (case, blanks, empty parts).
MultiHeaderForms(chain) ==
    {[i \in 1..Len(groups) |-> JoinComma(groups[i])] : groups \in Splits(chain)}
    \cup {<< <<>> >> \o [i \in 1..Len(groups) |->
                            <<" ">> \o JoinMessy(groups[i]) \o <<"\t", ",">>] :
           groups \in Splits(chain)}

\* the values of several header occurrences written as one comma-separated
\* value
RECURSIVE JoinValues(_)
JoinValues(values) ==
    IF values = <<>> THEN <<>>
    ELSE IF Len(values) = 1 THEN values[1]
    ELSE values[1] \o <<",">> \o JoinValues(Tail(values))

(***************************************************************************)
(* State.                                                                  *)
(***************************************************************************)
VARIABLES
    opts,           \* Options: MaxDecompressedBytes, StrictUnsupportedEncodings
    Header,         \* r.Header: the values of Content-Encoding and Content-Length
    ContentLength,  \* r.ContentLength
    Body,           \* r.Body: "raw" (the transport's body), "multi" (a
                    \* multiReadCloser) or "max" (a maxBytesReadCloser around it)
    rawBody,        \* the bytes of the transport's body
    bodyRead,       \* whether the middleware, or a decoder it opened, has read
                    \* from the transport's body
    reader,         \* the stream r.Body delivers (multiReadCloser.reader once
                    \* the pipeline is installed)
    pos,            \* bytes of `reader` delivered so far
    read,           \* maxBytesReadCloser.read
    stages,         \* the encoding of each stage in closers, in opening order;
                    \* closers is <<r.Body>> followed by one closer per stage
    closeCount,     \* per closer (0 is r.Body, k the k-th stage): Close calls
    closeLog,       \* the closers in the order their Close was called
    closeFails,     \* the closers whose Close returns an error
    closeErr,       \* what the last r.Body.Close() or closeAll returned: the
                    \* errors joined, as the closers they came from; <<>> is nil
    response,       \* what the middleware wrote: [status, message], status 0
                    \* when it wrote nothing
    handlerCalls,   \* calls of next.ServeHTTP
    pc,             \* "start", "handler" (next.ServeHTTP is running),
                    \* "deferred" (it returned or panicked, the deferred close
                    \* is due), "done"
    path,           \* the exit of the setup code that was taken
    lastRead,       \* the handler's last Read result [n, err], with the Read
                    \* of the stream below r.Body it made (inner)
    firstErr,       \* the first non-nil error a Read gave the handler
    received,       \* the bytes the handler has read
    extraReads,     \* reads issued after firstErr
    handlerClosed,  \* the handler called r.Body.Close()
    input,          \* the request as the client built it: chain, plain, variant,
                    \* and the header fields as they arrived
    other           \* the calls of the handler function that are in flight in
                    \* other goroutines, each with its request and its locals

vars == <<opts, Header, ContentLength, Body, rawBody, bodyRead, reader, pos, read,
          stages, closeCount, closeLog, closeFails, closeErr, response, handlerCalls,
          pc, path, lastRead, firstErr, received, extraReads, handlerClosed, input,
          other>>

NoResponse == [status |-> 0, message |-> <<>>]

Closers == 0..MaxChain

\* strict mode is enumerated where the code reads it (an unsupported token),
\* for the chains that open no decoder and for the shortest chains
StrictModes(chain) ==
    IF HasUnsupported(chain) \/ ~Decodable(chain) \/ Len(chain) <= 1 THEN BOOLEAN ELSE {FALSE}

\* every budget is enumerated where a guard can be installed, a negative one
\* for the shortest chains; elsewhere the limit is off or at its largest, and
\* for the chains without a token to decode also at its smallest
Budgets(chain) ==
    IF Decodable(chain) THEN (IF Len(chain) = 1 THEN (-1)..MaxBudget ELSE 0..MaxBudget)
    ELSE IF HasUnsupported(chain) THEN {0, MaxBudget}
    ELSE {0, 1, MaxBudget}

\* a request as it arrives, with the locals of the call of the handler
\* function that serves it
NewRequest(chain, plain, variant, values, fails) ==
    LET raw == BodyOf(chain, variant, plain)
        hdr == [ContentEncoding |-> values, ContentLength |-> <<Len(raw)>>]
    IN  [Header |-> hdr,
         ContentLength |-> Len(raw),
         Body |-> "raw",
         rawBody |-> raw,
         bodyRead |-> FALSE,
         reader |-> EOFStream(raw),
         pos |-> 0,
         read |-> 0,
         stages |-> <<>>,
         closeCount |-> [c \in Closers |-> 0],
         closeLog |-> <<>>,
         closeFails |-> fails,
         closeErr |-> <<>>,
         response |-> NoResponse,
         handlerCalls |-> 0,
         pc |-> "start",
         path |-> "none",
         lastRead |-> [n |-> 0, err |-> Nil, inner |-> NoInnerRead],
         firstErr |-> Nil,
         received |-> <<>>,
         extraReads |-> 0,
         handlerClosed |-> FALSE,
         input |-> [chain |-> chain, plain |-> plain, variant |-> variant,
                    Header |-> hdr, ContentLength |-> Len(raw)]]

\* the request and the locals of the call that is running
Locals ==
    [Header |-> Header, ContentLength |-> ContentLength, Body |-> Body,
     rawBody |-> rawBody, bodyRead |-> bodyRead, reader |-> reader, pos |-> pos,
     read |-> read, stages |-> stages, closeCount |-> closeCount,
     closeLog |-> closeLog, closeFails |-> closeFails, closeErr |-> closeErr,
     response |-> response, handlerCalls |-> handlerCalls, pc |-> pc, path |-> path,
     lastRead |-> lastRead, firstErr |-> firstErr, received |-> received,
     extraReads |-> extraReads, handlerClosed |-> handlerClosed, input |-> input]

\* the state in which the middleware's handler function is entered for
\* request q while the requests `others` are in flight
InitRequest(q, max, strict, others) ==
    /\ opts = [MaxDecompressedBytes |-> max, StrictUnsupportedEncodings |-> strict]
    /\ Header = q.Header
    /\ ContentLength = q.ContentLength
    /\ Body = q.Body
    /\ rawBody = q.rawBody
    /\ bodyRead = q.bodyRead
    /\ reader = q.reader
    /\ pos = q.pos
    /\ read = q.read
    /\ stages = q.stages
    /\ closeCount = q.closeCount
    /\ closeLog = q.closeLog
    /\ closeFails = q.closeFails
    /\ closeErr = q.closeErr
    /\ response = q.response
    /\ handlerCalls = q.handlerCalls
    /\ pc = q.pc
    /\ path = q.path
    /\ lastRead = q.lastRead
    /\ firstErr = q.firstErr
    /\ received = q.received
    /\ extraReads = q.extraReads
    /\ handlerClosed = q.handlerClosed
    /\ input = q.input
    /\ other = others

Init ==
    \E chain \in Chains, n \in 0..MaxPlain : \E max \in Budgets(chain) :
    \E variant \in VariantsOf(chain), strict \in StrictModes(chain),
       values \in HeaderForms(chain) :
        InitRequest(NewRequest(chain, Plaintext(n), variant, values, {}), max, strict, <<>>)

\* the requests served side by side: the first takes each exit of the setup,
\* the second has a body to decode, complete or cut short
FirstRequests ==
    {NewRequest(chain, Plaintext(MaxPlain), variant, <<JoinComma(chain)>>, {}) :
        chain \in {<<>>, <<encodingBr>>, <<encodingIdentity>>, <<encodingGzip>>},
        variant \in {"encoded", "plain"}}

SecondRequests ==
    {NewRequest(<<encodingZstd>>, Plaintext(MaxPlain), variant, <<encodingZstd>>, {}) :
        variant \in {"encoded", "truncated"}}

\* two requests in flight in the handler function of one middleware value
InitConcurrent ==
    \E q1 \in FirstRequests, q2 \in SecondRequests :
    \E max \in {0, 1, MaxPlain}, strict \in BOOLEAN :
        InitRequest(q1, max, strict, <<q2>>)

\* the closers that may fail for a chain: any of r.Body and its stages
FailSets(chain) == IF Decodable(chain) THEN SUBSET (0..Len(chain)) ELSE SUBSET {0}

\* requests of one byte of plaintext whose closers fail in every combination
InitClose ==
    \E chain \in Chains : \E variant \in VariantsOf(chain) \cap {"encoded", "plain"},
       strict \in StrictModes(chain), max \in {0, MaxBudget}, fails \in FailSets(chain) :
        InitRequest(NewRequest(chain, Plaintext(1), variant, <<JoinComma(chain)>>, fails),
                    max, strict, <<>>)

Bytes == 0..255

\* every body of at most two bytes
ShortBodies == {<<>>} \cup {<<b0>> : b0 \in Bytes} \cup {<<b0, b1>> : b0, b1 \in Bytes}

\* requests declared "deflate" with every body of at most two bytes, and
\* one request for each of the other exits of the setup
InitSniff ==
    \/ \E body \in ShortBodies :
         InitRequest(NewRequest(<<encodingDeflate>>, body, "plain", <<encodingDeflate>>, {}),
                     0, FALSE, <<>>)
    \/ \E chain \in {<<>>, <<encodingBr>>, <<encodingIdentity>>}, strict \in BOOLEAN :
         InitRequest(NewRequest(chain, <<120, 1>>, "plain", <<JoinComma(chain)>>, {}),
                     0, strict, <<>>)

\* requests without a budget, with their tokens spread over header
\* occurrences in every way; the body is one byte of plaintext encoded and,
\* for one token, also left as it is, or empty when nothing is decoded
InitHeaders ==
    \E chain \in Chains :
    \E variant \in (IF Decodable(chain) /\ Len(chain) > 1 THEN {"encoded"}
                    ELSE VariantsOf(chain) \cap {"encoded", "plain"}),
       strict \in StrictModes(chain), values \in MultiHeaderForms(chain) :
        InitRequest(NewRequest(chain, IF Decodable(chain) THEN Plaintext(1) ELSE <<>>,
                               variant, values, {}),
                    0, strict, <<>>)


(***************************************************************************)
(* Closing, src/unpack.go:161-163 and 200-211.                             *)
(***************************************************************************)
\* closers as built at src/unpack.go:76 and 118: r.Body, then the stages
closersOf(stgs) == <<0>> \o [i \in 1..Len(stgs) |-> i]

\* closers[i].Close(): nil, or the error of a closer that fails
closerClose(closer, fails) == IF closer \in fails THEN <<closer>> ELSE <<>>

errorsJoinKeepsLast(a, b) == IF b # <<>> THEN b ELSE a

\* errors.Join(a, b): the non-nil errors of both, nil when there is none
errorsJoin(a, b) == a \o b

\* the loop of closeAll from index i down to 1; acc is the Close calls made
\* and the error joined so far
RECURSIVE closeAllFrom(_, _, _, _)
closeAllFrom(closers, i, fails, acc) ==
    IF i < 1 THEN acc
    ELSE closeAllFrom(closers, i - 1, fails,
                      [log |-> Append(acc.log, closers[i]),
                       err |-> errorsJoin(acc.err, closerClose(closers[i], fails))])

closeAllStopsEarly(closers, fails) ==
    closeAllFrom(<<closers[Len(closers)]>>, 1, fails, [log |-> <<>>, err |-> <<>>])

\* closeAll, src/unpack.go:204-211: [log, err], the closers in the order their
\* Close is called and the error returned
closeAll(closers, fails) ==
    closeAllFrom(closers, Len(closers), fails, [log |-> <<>>, err |-> <<>>])

\* the Close calls counted
Closed(count, log) ==
    [c \in Closers |-> count[c] + Cardinality({i \in 1..Len(log) : log[i] = c})]

\* the Close calls of result r made
closing(r) ==
    /\ closeCount' = Closed(closeCount, r.log)
    /\ closeLog' = closeLog \o r.log
    /\ closeErr' = r.err

\* r.Body.Close() as the handler or the deferred function calls it:
\* multiReadCloser.Close closes all closers, maxBytesReadCloser.Close
\* passes the call on, the transport's body is closer 0
bodyClose ==
    IF Body = "raw" THEN closing([log |-> <<0>>, err |-> closerClose(0, closeFails)])
    ELSE closing(closeAll(closersOf(stages), closeFails))

(***************************************************************************)
(* The middleware's handler function, src/unpack.go:48-144, up to the call *)
(* of next.ServeHTTP or to its own response; one action per exit.          *)
(***************************************************************************)
encodings == parseContentEncodings(Header.ContentEncoding)

UNCHANGED_handler ==
    UNCHANGED <<lastRead, firstErr, received, extraReads, handlerClosed, closeFails, other>>

\* src/unpack.go:50-53 (no token), 65-67 (permissive) and 70-73 (identity
\* only): next.ServeHTTP(w, r) on the request as it arrived
passThrough(p) ==
    /\ handlerCalls' = handlerCalls + 1
    /\ pc' = "handler"
    /\ path' = p
    /\ UNCHANGED <<opts, Header, ContentLength, Body, rawBody, bodyRead, reader, pos,
                   read, stages, closeCount, closeLog, closeErr, response, input>>
    /\ UNCHANGED_handler

httpErrorSilent(message, status) == NoResponse

\* http.Error(w, message, status), src/unpack.go:60 and 109: the response
\* the middleware writes
httpError(message, status) == [status |-> status, message |-> message]

NoEncodings ==
    /\ pc = "start"
    /\ Len(encodings) = 0
    /\ passThrough("absent")

\* src/unpack.go:55-63
RejectUnsupported ==
    /\ pc = "start"
    /\ Len(encodings) # 0
    /\ ~allSupportedEncodings(encodings)
    /\ opts.StrictUnsupportedEncodings
    /\ closing([log |-> <<0>>, err |-> closerClose(0, closeFails)])
    /\ response' = httpError(unsupportedEncodingMessage(firstUnsupportedEncoding(encodings)),
                              415)
    /\ pc' = "done"
    /\ path' = "strict"
    /\ UNCHANGED <<opts, Header, ContentLength, Body, rawBody, bodyRead, reader, pos,
                   read, stages, handlerCalls, input>>
    /\ UNCHANGED_handler

PassUnsupported ==
    /\ pc = "start"
    /\ Len(encodings) # 0
    /\ ~allSupportedEncodings(encodings)
    /\ ~opts.StrictUnsupportedEncodings
    /\ passThrough("permissive")

PassIdentity ==
    /\ pc = "start"
    /\ Len(encodings) # 0
    /\ allSupportedEncodings(encodings)
    /\ ~hasDecodableEncodings(encodings)
    /\ passThrough("noop")

decodable ==
    /\ Len(encodings) # 0
    /\ allSupportedEncodings(encodings)
    /\ hasDecodableEncodings(encodings)

pipeline == buildPipeline(encodings, Len(encodings), EOFStream(rawBody), <<>>)

\* src/unpack.go:106-112: a decoder failed to open
OpenFailure ==
    /\ pc = "start"
    /\ decodable
    /\ pipeline.failed
    /\ stages' = pipeline.stages
    /\ bodyRead' = TRUE
    /\ closing(closeAll(closersOf(pipeline.stages), closeFails))
    /\ response' = httpError(decompressionErrorMessage(pipeline.encoding), 415)
    /\ pc' = "done"
    /\ path' = "openfail"
    /\ UNCHANGED <<opts, Header, ContentLength, Body, rawBody, reader, pos, read,
                   handlerCalls, input>>
    /\ UNCHANGED_handler

rewriteHeaderKeepLength(h) == [h EXCEPT !.ContentEncoding = <<>>]

\* src/unpack.go:135 and 137: both headers deleted
rewriteHeader(h) == [ContentEncoding |-> <<>>, ContentLength |-> <<>>]

guardInstalledNonNegative(max) == max >= 0

\* src/unpack.go:127: the guard is put around the pipeline for a budget > 0
guardInstalled(max) == max > 0

\* src/unpack.go:121-143: the pipeline is installed and next.ServeHTTP called
Activate ==
    /\ pc = "start"
    /\ decodable
    /\ ~pipeline.failed
    /\ stages' = pipeline.stages
    /\ bodyRead' = TRUE
    /\ reader' = pipeline.rc
    /\ Body' = IF guardInstalled(opts.MaxDecompressedBytes) THEN "max" ELSE "multi"
    /\ Header' = rewriteHeader(Header)
    /\ ContentLength' = -1
    /\ handlerCalls' = handlerCalls + 1
    /\ pc' = "handler"
    /\ path' = "activated"
    /\ UNCHANGED <<opts, rawBody, pos, read, closeCount, closeLog, closeErr, response, input>>
    /\ UNCHANGED_handler

(***************************************************************************)
(* The downstream handler: any sequence of reads of r.Body, possibly a     *)
(* Close, then its end.                                                    *)
(***************************************************************************)
\* r.Body.Read(p) with len(p) = plen
bodyReadResults(plen) ==
    IF Body = "max"
    THEN maxBytesRead(opts.MaxDecompressedBytes, read, reader, pos, plen)
    ELSE {[n |-> r.n, err |-> r.err, read |-> read, inner |-> InnerRead(r)] :
             r \in ReadResults(reader, pos, plen)}

HandlerRead ==
    /\ pc = "handler"
    /\ ~handlerClosed
    /\ firstErr = Nil \/ extraReads < MaxExtraReads
    /\ \E plen \in 1..MaxBuf : \E r \in bodyReadResults(plen) :
        /\ pos' = pos + r.n
        /\ read' = r.read
        /\ received' = received \o SubSeq(reader.data, pos + 1, pos + r.n)
        /\ lastRead' = [n |-> r.n, err |-> r.err, inner |-> r.inner]
        /\ firstErr' = IF firstErr = Nil THEN r.err ELSE firstErr
        /\ extraReads' = IF firstErr = Nil THEN extraReads ELSE extraReads + 1
    /\ UNCHANGED <<closeFails, other>>
    /\ UNCHANGED <<opts, Header, ContentLength, Body, rawBody, bodyRead, reader, stages,
                   closeCount, closeLog, closeErr, response, handlerCalls, pc, path,
                   handlerClosed, input>>

HandlerClose ==
    /\ pc = "handler"
    /\ ~handlerClosed
    /\ handlerClosed' = TRUE
    /\ bodyClose
    /\ UNCHANGED <<closeFails, other>>
    /\ UNCHANGED <<opts, Header, ContentLength, Body, rawBody, bodyRead, reader, pos,
                   read, stages, response, handlerCalls, pc, path, lastRead, firstErr,
                   received, extraReads, input>>

afterHandlerNoDefer(how) == IF how = "panic" THEN "done" ELSE "deferred"

\* src/unpack.go:139-143: body.Close() is deferred before next.ServeHTTP is
\* called, so it is due however the call ends
afterHandler(how) == "deferred"

\* next.ServeHTTP ends, by a return or by a panic: the deferred function of
\* src/unpack.go:139-141 is due either way when the pipeline was installed
HandlerReturn ==
    /\ pc = "handler"
    /\ \E how \in {"return", "panic"} :
         pc' = IF path = "activated" THEN afterHandler(how) ELSE "done"
    /\ UNCHANGED <<closeFails, other>>
    /\ UNCHANGED <<opts, Header, ContentLength, Body, rawBody, bodyRead, reader, pos,
                   read, stages, closeCount, closeLog, closeErr, response, handlerCalls, path,
                   lastRead, firstErr, received, extraReads, handlerClosed, input>>

\* src/unpack.go:139-141: the deferred body.Close() runs when next.ServeHTTP
\* returns or panics
DeferredClose ==
    /\ pc = "deferred"
    /\ bodyClose
    /\ pc' = "done"
    /\ UNCHANGED <<closeFails, other>>
    /\ UNCHANGED <<opts, Header, ContentLength, Body, rawBody, bodyRead, reader, pos,
                   read, stages, response, handlerCalls, path, lastRead, firstErr,
                   received, extraReads, handlerClosed, input>>

guardCounterShared(q) == read

\* maxBytesReadCloser.read of the guard of call q: the guard is allocated in
\* the call (src/unpack.go:128-131), so is its counter
guardCounter(q) == q.read

\* The scheduler runs another call of the handler function: the running
\* call's request and locals are set aside, those of the other call are
\* taken up.  Options are the middleware value's, the same for every call.
Switch ==
    /\ other # <<>>
    /\ LET q == Head(other)
       IN  /\ Header' = q.Header
           /\ ContentLength' = q.ContentLength
           /\ Body' = q.Body
           /\ rawBody' = q.rawBody
           /\ bodyRead' = q.bodyRead
           /\ reader' = q.reader
           /\ pos' = q.pos
           /\ read' = guardCounter(q)
           /\ stages' = q.stages
           /\ closeCount' = q.closeCount
           /\ closeLog' = q.closeLog
           /\ closeFails' = q.closeFails
           /\ closeErr' = q.closeErr
           /\ response' = q.response
           /\ handlerCalls' = q.handlerCalls
           /\ pc' = q.pc
           /\ path' = q.path
           /\ lastRead' = q.lastRead
           /\ firstErr' = q.firstErr
           /\ received' = q.received
           /\ extraReads' = q.extraReads
           /\ handlerClosed' = q.handlerClosed
           /\ input' = q.input
    /\ other' = Append(Tail(other), Locals)
    /\ UNCHANGED opts

Next ==
    \/ NoEncodings
    \/ RejectUnsupported
    \/ PassUnsupported
    \/ PassIdentity
    \/ OpenFailure
    \/ Activate
    \/ HandlerRead
    \/ HandlerClose
    \/ HandlerReturn
    \/ DeferredClose

Spec == Init /\ [][Next]_vars

SpecHeaders == InitHeaders /\ [][Next]_vars

SpecClose == InitClose /\ [][Next]_vars

SpecSniff == InitSniff /\ [][Next]_vars

NextConcurrent ==
    \/ Next
    \/ Switch

SpecConcurrent == InitConcurrent /\ [][NextConcurrent]_vars


(***************************************************************************)
(* The handler of the tests, requestBodyWriter (src/unpack_test.go:45-71): *)
(* io.ReadAll, then a status chosen by the error it returned.  io.ReadAll  *)
(* stops at the first non-nil error and reports io.EOF as success.         *)
(***************************************************************************)
requestBodyWriterStatus(err) ==
    IF err.kind \in {"nil", "eof"} THEN 200
    ELSE IF err.kind = "limit" THEN 413
    ELSE IF err.kind = "decode" THEN 415
    ELSE 500

\* the handler has read the body up to the error that ends io.ReadAll
ReadToEnd == firstErr # Nil

(***************************************************************************)
(* Vocabulary of the properties.                                           *)
(***************************************************************************)
\* the first token of the chain, from the left, that is not supported
LeftmostUnsupported(chain) ==
    chain[CHOOSE i \in 1..Len(chain) :
             /\ chain[i] \notin SupportedEncodings
             /\ \A j \in 1..(i - 1) : chain[j] \in SupportedEncodings]

\* the decodable tokens of a chain, from the last to the first
RECURSIVE UnwrapOrder(_)
UnwrapOrder(chain) ==
    IF chain = <<>> THEN <<>>
    ELSE LET last == chain[Len(chain)]
             rest == UnwrapOrder(SubSeq(chain, 1, Len(chain) - 1))
         IN  IF last = encodingIdentity THEN rest ELSE <<last>> \o rest

\* the closers of the Resource Set: r.Body and every opened stage
ResourceSet == 0..Len(stages)

Budget == opts.MaxDecompressedBytes

(***************************************************************************)
(* C1.  On every request that activates the pipeline or aborts it while    *)
(* opening a stage, each resource of the Resource Set has been closed      *)
(* exactly once when the middleware is done, whatever the handler did with *)
(* the body (its own Close included).                                      *)
(***************************************************************************)
C1_ReleasedExactlyOnce ==
    (pc = "done" /\ path \in {"activated", "openfail"})
        => \A c \in ResourceSet : closeCount[c] = 1

(***************************************************************************)
(* C2.  With a budget B > 0 and a decoded body of exactly B bytes, the     *)
(* handler never gets a limit-exceeded error, and once it has read to the  *)
(* end it holds all B bytes, however the inner reads are split.            *)
(***************************************************************************)
C2_ExactBudgetPasses ==
    (Body = "max" /\ reader.term = "eof" /\ Len(reader.data) = Budget)
        => /\ lastRead.err.kind # "limit"
           /\ firstErr.kind # "limit"
           /\ ReadToEnd => received = reader.data

(***************************************************************************)
(* C3.  With a budget B > 0 the counter R of the guard stays within 0..B   *)
(* and counts the bytes delivered; when the decoded body is longer than B, *)
(* the error that ends the handler's reading is limit-exceeded (status 413 *)
(* with the test handler), with exactly B bytes delivered.                 *)
(***************************************************************************)
C3_BudgetNeverExceeded ==
    Body = "max"
        => /\ Budget > 0
           /\ 0 <= read /\ read <= Budget
           /\ read = Len(received)
           /\ received = Take(reader.data, read)
           /\ (Len(reader.data) > Budget /\ ReadToEnd)
                => /\ firstErr = MaxBytesError(Budget)
                   /\ requestBodyWriterStatus(firstErr) = 413
                   /\ read = Budget

C3_Witness ==
    /\ Body = "max"
    /\ Len(reader.data) = Budget + 1
    /\ firstErr.kind = "limit"
    /\ Len(received) = Budget
    /\ pc = "done"


(***************************************************************************)
(* C4.  When a stage fails to open, the middleware is done at once: every  *)
(* closer opened so far (r.Body and the earlier stages) has been closed,   *)
(* the response is 415 "Content-Encoding: <token> set but unable to        *)
(* decompress body" for the token whose decoder failed (the one left of    *)
(* the stages that did open), next.ServeHTTP was not called and r.Body,    *)
(* the headers and the length are those the request arrived with.          *)
(***************************************************************************)
C4_OpenFailureAborts ==
    path = "openfail"
        => /\ pc = "done"
           /\ \A c \in ResourceSet : closeCount[c] = 1
           /\ \A c \in Closers \ ResourceSet : closeCount[c] = 0
           /\ response.status = 415
           /\ \E i \in 1..Len(input.chain) :
                /\ input.chain[i] \in DecodableEncodings
                /\ stages = UnwrapOrder(SubSeq(input.chain, i + 1, Len(input.chain)))
                /\ response.message =
                     <<"Content-Encoding: ", input.chain[i],
                       " set but unable to decompress body">>
           /\ handlerCalls = 0
           /\ Body = "raw"
           /\ reader = EOFStream(rawBody)
           /\ Header = input.Header
           /\ ContentLength = input.ContentLength
           /\ received = <<>>

C4_Witness ==
    /\ path = "openfail"
    /\ Len(stages) = 2
    /\ closeLog = <<2, 1, 0>>
    /\ response.message = decompressionErrorMessage(encodingGzip)

(***************************************************************************)
(* C5.  Round trip: a body made by applying the encodings of a supported   *)
(* chain to a plaintext in listed order (deflate as zlib) activates the    *)
(* pipeline, whose stages are the chain's decodable tokens from the last   *)
(* to the first (identity gives no stage) and whose composed stream is the *)
(* plaintext followed by end-of-stream; a handler that reads to            *)
(* end-of-stream holds exactly the plaintext.                              *)
(***************************************************************************)
C5_RoundTrip ==
    (input.variant = "encoded" /\ Decodable(input.chain) /\ pc # "start")
        => /\ path = "activated"
           /\ stages = UnwrapOrder(input.chain)
           /\ reader = EOFStream(input.plain)
           /\ firstErr.kind = "eof" => received = input.plain

C5_Witness ==
    /\ input.variant = "encoded"
    /\ input.chain = <<encodingZstd, encodingGzip, encodingDeflate>>
    /\ input.plain = <<104, 105>>
    /\ stages = <<encodingDeflate, encodingGzip, encodingZstd>>
    /\ firstErr.kind = "eof"
    /\ received = input.plain
    /\ pc = "done"

\* the encoding of the first stage, in opening order, whose own decoder ends
\* its output with an error: the stage in which a read error first surfaces
RECURSIVE SurfacesIn(_, _)
SurfacesIn(stgs, rc) ==
    IF stgs = <<>> THEN NoEncoding
    ELSE LET out == openStage(Head(stgs), rc).out
         IN  IF out.term = "io" THEN Head(stgs) ELSE SurfacesIn(Tail(stgs), out)

(***************************************************************************)
(* C6.  Every error a Read of the installed pipeline gives the handler is  *)
(* io.EOF, the limit error, or a *DecompressionError; the latter carries   *)
(* the token of the stage in which the error first surfaced, also when it  *)
(* passed through later stages; io.EOF carries no token.                   *)
(***************************************************************************)
C6_ReadErrorsTyped ==
    path = "activated"
        => \A e \in {lastRead.err, firstErr} :
             /\ e.kind \in {"nil", "eof", "limit", "decode"}
             /\ e.kind = "decode"
                  => /\ e.encoding # NoEncoding
                     /\ e.encoding = SurfacesIn(stages, EOFStream(rawBody))
                     /\ requestBodyWriterStatus(e) = 415
             /\ e.kind # "decode" => e.encoding = NoEncoding

C6_Witness ==
    /\ path = "activated"
    /\ Len(stages) = 2
    /\ stages[1] # stages[2]
    /\ lastRead.err.kind = "decode"
    /\ lastRead.err.encoding = stages[1]
    /\ lastRead.n > 0

(***************************************************************************)
(* C7.  In strict mode a chain with an unsupported token is rejected at    *)
(* once: status 415, "Content-Encoding: <tok> is not supported" with tok   *)
(* the leftmost unsupported token, no byte of the body read, no call of    *)
(* next.ServeHTTP, no decoder opened.                                      *)
(***************************************************************************)
C7_StrictRejects ==
    (opts.StrictUnsupportedEncodings /\ HasUnsupported(input.chain) /\ pc # "start")
        => /\ pc = "done"
           /\ path = "strict"
           /\ response.status = 415
           /\ response.message =
                <<"Content-Encoding: ", LeftmostUnsupported(input.chain), " is not supported">>
           /\ handlerCalls = 0
           /\ ~bodyRead
           /\ pos = 0
           /\ received = <<>>
           /\ stages = <<>>
           /\ Body = "raw"

C7_Witness ==
    /\ path = "strict"
    /\ input.chain = <<encodingGzip, encodingCompress, encodingBr>>
    /\ response.message = unsupportedEncodingMessage(encodingCompress)

(***************************************************************************)
(* C8.  In permissive mode a chain with an unsupported token is passed     *)
(* through: next.ServeHTTP is called once with r.Body still the            *)
(* transport's body, unread and not closed by the middleware, no decoder   *)
(* opened, nothing written, Content-Encoding, Content-Length and           *)
(* r.ContentLength as they arrived; the handler reads the raw bytes.       *)
(***************************************************************************)
C8_PermissivePassThrough ==
    (~opts.StrictUnsupportedEncodings /\ HasUnsupported(input.chain) /\ pc # "start")
        => /\ path = "permissive"
           /\ handlerCalls = 1
           /\ Body = "raw"
           /\ reader = EOFStream(rawBody)
           /\ ~bodyRead
           /\ stages = <<>>
           /\ response = NoResponse
           /\ Header = input.Header
           /\ ContentLength = input.ContentLength
           /\ closeLog = IF handlerClosed THEN <<0>> ELSE <<>>
           /\ received = Take(rawBody, pos)
           /\ ReadToEnd => (firstErr.kind = "eof" /\ received = rawBody)

C8_Witness ==
    /\ path = "permissive"
    /\ input.chain = <<encodingGzip, encodingBr>>
    /\ ~handlerClosed
    /\ firstErr.kind = "eof"
    /\ received = rawBody
    /\ rawBody # <<>>
    /\ pc = "done"

(***************************************************************************)
(* C9.  A body that is raw deflate (no zlib wrapper) declared as "deflate" *)
(* is decoded: the sniff selects the raw decoder and the pipeline delivers *)
(* the plaintext followed by end-of-stream.                                *)
(***************************************************************************)
C9_RawDeflateDecoded ==
    (input.chain = <<encodingDeflate>> /\ input.variant \in {"raw", "rawpad"} /\ pc # "start")
        => /\ path = "activated"
           /\ ~looksLikeZlibHeader(EOFStream(rawBody))
           /\ reader = EOFStream(input.plain)
           /\ firstErr.kind = "eof" => received = input.plain

(***************************************************************************)
(* C10.  When the handler is called on an installed pipeline the request   *)
(* has no Content-Encoding value, no Content-Length value and              *)
(* r.ContentLength = -1; on every other path the three are as they         *)
(* arrived.                                                                *)
(***************************************************************************)
C10_HeadersRewritten ==
    /\ path = "activated"
         => /\ handlerCalls = 1
            /\ Header.ContentEncoding = <<>>
            /\ Header.ContentLength = <<>>
            /\ ContentLength = -1
    /\ path # "activated"
         => /\ Header = input.Header
            /\ ContentLength = input.ContentLength

C10_Witness ==
    /\ path = "activated"
    /\ pc = "handler"
    /\ input.Header.ContentLength # <<>>
    /\ input.Header.ContentEncoding # <<>>
    /\ input.ContentLength >= 0
    /\ ContentLength = -1

\* a token list of one or more tokens, all of them "identity"
IdentityOnly(chain) ==
    /\ chain # <<>>
    /\ \A i \in 1..Len(chain) : chain[i] = encodingIdentity

(***************************************************************************)
(* C11.  A token list of identity tokens only, of any length, is handled   *)
(* as a request without Content-Encoding is, in permissive and in strict   *)
(* mode and with or without a budget: next.ServeHTTP is called once with   *)
(* r.Body still the transport's body, unread, no decoder and no guard      *)
(* installed, headers and length as they arrived, nothing closed by the    *)
(* middleware and no response written by it.                               *)
(***************************************************************************)
C11_IdentityOnlyIsAbsent ==
    ((IdentityOnly(input.chain) \/ input.chain = <<>>) /\ pc # "start")
        => /\ path = (IF input.chain = <<>> THEN "absent" ELSE "noop")
           /\ handlerCalls = 1
           /\ Body = "raw"
           /\ reader = EOFStream(rawBody)
           /\ ~bodyRead
           /\ read = 0
           /\ stages = <<>>
           /\ response = NoResponse
           /\ Header = input.Header
           /\ ContentLength = input.ContentLength
           /\ closeLog = (IF handlerClosed THEN <<0>> ELSE <<>>)
           /\ received = Take(rawBody, pos)
           /\ lastRead.err.kind \in {"nil", "eof"}
           /\ ReadToEnd => (firstErr.kind = "eof" /\ received = rawBody)

C11_Witness ==
    /\ input.chain = <<encodingIdentity, encodingIdentity, encodingIdentity>>
    /\ opts.StrictUnsupportedEncodings
    /\ opts.MaxDecompressedBytes > 0
    /\ Len(rawBody) > opts.MaxDecompressedBytes
    /\ path = "noop"
    /\ ~handlerClosed
    /\ firstErr.kind = "eof"
    /\ received = rawBody
    /\ pc = "done"

(***************************************************************************)
(* C12.  Tokens declared over several Content-Encoding occurrences are     *)
(* handled as the same tokens in one comma-separated value: the parsed     *)
(* token sequence of the occurrences equals the one of their values joined *)
(* by commas (occurrence order, left to right within a value, empty tokens *)
(* dropped, lower-cased and trimmed), hence the declared chain, and the    *)
(* classification, the unwrap order and the outcome are those of the       *)
(* chain.                                                                  *)
(***************************************************************************)
C12_MultiHeaderEquivalent ==
    LET values == input.Header.ContentEncoding
        joined == <<JoinValues(values)>>
    IN  /\ pc = "start"
             => /\ encodings = parseContentEncodings(values)
                /\ encodings = parseContentEncodings(joined)
                /\ encodings = input.chain
        /\ pc # "start"
             => /\ input.chain = <<>> => path = "absent"
                /\ HasUnsupported(input.chain)
                     => path = (IF opts.StrictUnsupportedEncodings
                                THEN "strict" ELSE "permissive")
                /\ IdentityOnly(input.chain) => path = "noop"
                /\ Decodable(input.chain) => path \in {"activated", "openfail"}
                /\ path = "activated" => stages = UnwrapOrder(input.chain)
                /\ (Decodable(input.chain) /\ input.variant = "encoded")
                     => /\ path = "activated"
                        /\ reader = EOFStream(input.plain)

C12_Witness ==
    /\ input.chain = <<encodingGzip, encodingIdentity, encodingDeflate>>
    /\ Len(input.Header.ContentEncoding) = 4
    /\ input.Header.ContentEncoding[1] = <<>>
    /\ input.variant = "encoded"
    /\ stages = <<encodingDeflate, encodingGzip>>
    /\ firstErr.kind = "eof"
    /\ received = input.plain
    /\ pc = "done"

Solo(q) ==
    LET e == parseContentEncodings(q.input.Header.ContentEncoding)
        p == buildPipeline(e, Len(e), EOFStream(q.rawBody), <<>>)
        run == closeAll(closersOf(q.stages), q.closeFails).log
    IN  /\ q.rawBody = BodyOf(q.input.chain, q.input.variant, q.input.plain)
        /\ q.path = "activated" => (q.reader = p.rc /\ q.stages = p.stages)
        /\ q.path = "openfail" => (q.reader = EOFStream(q.rawBody) /\ q.stages = p.stages)
        /\ q.path \notin {"activated", "openfail"}
             => (q.reader = EOFStream(q.rawBody) /\ q.stages = <<>>)
        /\ q.received = Take(q.reader.data, q.pos)
        /\ q.Body = "max" <=> (q.path = "activated" /\ Budget > 0)
        /\ q.read = (IF q.Body = "max" THEN q.pos ELSE 0)
        /\ q.read = 0 \/ q.read <= Budget
        /\ q.closeCount = Closed([c \in Closers |-> 0], q.closeLog)
        /\ q.closeLog \in (IF q.Body = "raw" /\ q.path # "openfail"
                           THEN {<<>>, <<0>>} ELSE {<<>>, run, run \o run})
        /\ q.firstErr # Nil
             => \/ q.firstErr = TermErr(q.reader) /\ q.pos = Len(q.reader.data)
                \/ q.firstErr = MaxBytesError(Budget) /\ q.Body = "max" /\ q.pos = Budget
        /\ q.pc = "done" /\ q.path = "activated" => q.closeLog # <<>>

(***************************************************************************)
(* C14.  Requests served concurrently by one middleware value have         *)
(* independent pipelines: under every interleaving of the setup, the       *)
(* reads and the closes of two requests, each request's counter of         *)
(* delivered bytes, its resource set and its composed stream are those of  *)
(* the request served alone; no step of one request changes them for the   *)
(* other.                                                                  *)
(***************************************************************************)
C14_IndependentPipelines ==
    /\ Solo(Locals)
    /\ \A i \in 1..Len(other) : Solo(other[i])

C14_Witness ==
    /\ other # <<>>
    /\ Budget = 1
    /\ path = "activated" /\ other[1].path = "activated"
    /\ pc = "done" /\ other[1].pc = "done"
    /\ input.chain # other[1].input.chain
    /\ read = 1 /\ other[1].read = 0
    /\ firstErr.kind = "limit" /\ other[1].firstErr.kind = "decode"
    /\ closeLog = <<1, 0>> /\ other[1].closeLog = <<1, 0, 1, 0>>

(***************************************************************************)
(* C15.  A budget B <= 0 disables the limit: no guard is installed, no     *)
(* read ever gives a limit error whatever the decoded length, and every    *)
(* read of the decoded body returns what the read of the composed pipeline *)
(* returned.  With the default configuration (no limit, permissive) a      *)
(* handler that reads the whole body ends with the full decoded body or    *)
(* with a typed decode error: status 200 or 415 with the test handler,     *)
(* never 413.                                                              *)
(***************************************************************************)
C15_NoBudgetNoLimit ==
    Budget <= 0
        => /\ Body # "max"
           /\ read = 0
           /\ lastRead.err.kind # "limit"
           /\ firstErr.kind # "limit"
           /\ lastRead.inner.called
                => (lastRead.n = lastRead.inner.n /\ lastRead.err = lastRead.inner.err)
           /\ received = Take(reader.data, pos)
           /\ ReadToEnd => (firstErr = TermErr(reader) /\ received = reader.data)
           /\ (ReadToEnd /\ path = "activated" /\ ~opts.StrictUnsupportedEncodings)
                => /\ requestBodyWriterStatus(firstErr) \in {200, 415}
                   /\ requestBodyWriterStatus(firstErr) = 200 => firstErr.kind = "eof"
                   /\ requestBodyWriterStatus(firstErr) = 415 => firstErr.kind = "decode"

C15_Witness ==
    /\ Budget < 0
    /\ ~opts.StrictUnsupportedEncodings
    /\ path = "activated"
    /\ Body = "multi"
    /\ Len(reader.data) = MaxPlain
    /\ firstErr.kind = "eof"
    /\ received = input.plain
    /\ extraReads = MaxExtraReads
    /\ pc = "done"

(***************************************************************************)
(* C16.  In the guard with budget B > 0, once the counter R has reached B  *)
(* every further Read returns zero bytes and a limit error carrying B at   *)
(* once: the inner stream is not read, R, the position of the inner stream *)
(* and the bytes delivered stay as they are.                               *)
(***************************************************************************)
C16_LimitIsSticky ==
    [][(Body = "max" /\ read >= Budget /\ extraReads' = extraReads + 1)
         => /\ lastRead' = [n |-> 0, err |-> MaxBytesError(Budget), inner |-> NoInnerRead]
            /\ read' = read
            /\ pos' = pos
            /\ received' = received]_vars

C16_Witness ==
    /\ Body = "max"
    /\ read = Budget
    /\ Len(reader.data) > Budget
    /\ firstErr = MaxBytesError(Budget)
    /\ extraReads = MaxExtraReads
    /\ lastRead = [n |-> 0, err |-> MaxBytesError(Budget), inner |-> NoInnerRead]

(***************************************************************************)
(* C17.  In the guard, a Read whose inner read brings R to B with no error *)
(* returns the bytes together with a limit error on that call; when the    *)
(* inner read reports an error at that point (end-of-stream, a decode      *)
(* error) that error is returned unchanged; a Read that leaves R < B       *)
(* returns the inner result unchanged.                                     *)
(***************************************************************************)
C17_GuardResult ==
    (Body = "max" /\ lastRead.inner.called)
        => /\ lastRead.n = lastRead.inner.n
           /\ read < Budget => lastRead.err = lastRead.inner.err
           /\ (read >= Budget /\ lastRead.inner.err = Nil)
                => lastRead.err = MaxBytesError(Budget)
           /\ (read >= Budget /\ lastRead.inner.err # Nil)
                => lastRead.err = lastRead.inner.err

C17_Witness ==
    /\ Body = "max"
    /\ read = Budget
    /\ lastRead.inner.called
    /\ lastRead.inner.err = Nil
    /\ lastRead.n = MaxBuf
    /\ lastRead.err = MaxBytesError(Budget)
    /\ Len(reader.data) = Budget

\* closeAll's order for the Resource Set: the stage opened last first, the
\* transport's body (closer 0) last
ReverseAcquisition == [i \in 1..(Len(stages) + 1) |-> Len(stages) + 1 - i]

(***************************************************************************)
(* C18.  closeAll releases the resources in reverse order of acquisition   *)
(* (the stage opened last first, the raw body last), calls the release of  *)
(* every resource also when an earlier release failed, and returns one     *)
(* error that holds every release error that occurred: nil exactly when    *)
(* none failed.                                                            *)
(***************************************************************************)
C18_CloseAllReverseAggregate ==
    (path \in {"activated", "openfail"} /\ closeLog # <<>>)
        => /\ closeLog \in {ReverseAcquisition, ReverseAcquisition \o ReverseAcquisition}
           /\ closeErr = SelectSeq(ReverseAcquisition, LAMBDA c : c \in closeFails)
           /\ {closeErr[i] : i \in 1..Len(closeErr)} = closeFails \cap ResourceSet
           /\ closeErr = <<>> <=> closeFails \cap ResourceSet = {}

C18_Witness ==
    /\ path = "activated"
    /\ Len(stages) = 3
    /\ closeFails = {0, 3}
    /\ closeLog = <<3, 2, 1, 0>>
    /\ closeErr = <<3, 0>>
    /\ pc = "done"

(***************************************************************************)
(* C19.  Once the pipeline is installed the teardown runs on every exit:   *)
(* when the middleware is done, whether the handler returned normally,     *)
(* after a read error, without draining the body, or ended by a panic,     *)
(* every resource of the Resource Set has been closed at least once, with  *)
(* a budget through the guard's Close.                                     *)
(***************************************************************************)
C19_TeardownOnEveryExit ==
    (path = "activated" /\ pc = "done")
        => /\ \A c \in ResourceSet : closeCount[c] >= 1
           /\ \A c \in ResourceSet : \E i \in 1..Len(closeLog) : closeLog[i] = c
           /\ Len(closeLog) >= Len(stages) + 1

C19_Witness ==
    /\ path = "activated"
    /\ pc = "done"
    /\ Body = "max"
    /\ ~handlerClosed
    /\ firstErr = Nil
    /\ pos = 0
    /\ Len(reader.data) > 0
    /\ Len(stages) = 3
    /\ \A c \in ResourceSet : closeCount[c] = 1

\* the zlib header check on two bytes, as RFC 1950 words it
ZlibHeaderCheck(b0, b1) ==
    /\ b0 % 16 = 8
    /\ b0 \div 16 <= 7
    /\ (256 * b0 + b1) % 31 = 0

(***************************************************************************)
(* C20.  The sniff of the deflate variant says zlib-wrapped exactly when   *)
(* the first two bytes b0, b1 of the stream satisfy b0 mod 16 = 8,         *)
(* b0 div 16 <= 7 and (256 b0 + b1) mod 31 = 0, for every pair of byte     *)
(* values, and raw deflate otherwise; with fewer than two bytes it says    *)
(* zlib-wrapped.  The decoder opened for the stage is the one it says.     *)
(***************************************************************************)
C20_SniffExact ==
    input.chain = <<encodingDeflate>>
        => LET in == EOFStream(rawBody)
               zlib == IF Len(rawBody) < 2 THEN TRUE
                       ELSE ZlibHeaderCheck(rawBody[1], rawBody[2])
               opened == IF zlib THEN zlibNewReader(in) ELSE flateNewReader(in)
           IN  /\ looksLikeZlibHeader(in) = zlib
               /\ pc # "start"
                    => /\ path = (IF opened.ok THEN "activated" ELSE "openfail")
                       /\ path = "activated"
                            => reader = wrapStage(opened.out, encodingDeflate)
                       /\ path = "openfail" => zlib

C20_Witness ==
    /\ input.chain = <<encodingDeflate>>
    /\ rawBody = <<136, 28>>
    /\ ~looksLikeZlibHeader(EOFStream(rawBody))
    /\ path = "activated"
    /\ firstErr.kind = "decode"
    /\ pc = "done"

(***************************************************************************)
(* C21.  End-of-stream is sticky on the guarded body: once a Read of the   *)
(* guard has reported io.EOF, every later Read reports io.EOF with zero    *)
(* bytes and never a limit error, also when the decoded length is exactly  *)
(* the budget B.                                                           *)
(***************************************************************************)
C21_EOFIsSticky ==
    (Body = "max" /\ firstErr.kind = "eof")
        => /\ lastRead.err.kind = "eof"
           /\ extraReads > 0 => lastRead.n = 0

=============================================================================
